---- MODULE Spec2Model ----
(***************************************************************************)
(* A model of zoauth_client.py: the class ZOAuth2Client, its constructor    *)
(* and its five methods, together with the HTTP requests they send.         *)
(*                                                                          *)
(* Python values are modelled as follows.                                   *)
(*   - a str is a TLA+ string, f-strings and + are \o;                      *)
(*   - a dict is a function from its keys to its values;                    *)
(*   - a value that may be None is a sequence of length at most one:        *)
(*     <<>> is None and <<v>> is the value v;                               *)
(*   - datetime.now() is the integer clock now, in seconds.                 *)
(* The calls are not overlapping: every method call is one step.            *)
(***************************************************************************)
EXTENDS Integers, Sequences, FiniteSets, TLC

VARIABLES
    clients,    \* the constructed ZOAuth2Client objects, by name
    hdefault,   \* the dict object that is the default of authorize_header's h
    now,        \* datetime.now()
    call,       \* the most recent method call: arguments, responses, outcome
    sent,       \* the HTTP requests sent by the most recent call, in order
    ctor,       \* history: the arguments each client was constructed with
    issued      \* history: the access_token of each client's latest
                \* token-endpoint response that contained one (<<>>: none yet)

vars == <<clients, hdefault, now, call, sent, ctor, issued>>

-----------------------------------------------------------------------------
(* Bounds of the model. *)

\* the clock runs over 0..MaxTime
MaxTime == 2
\* the token endpoint answers expires_in in 1..MaxExpiresIn
MaxExpiresIn == 1

-----------------------------------------------------------------------------
(* Python values. *)

None == <<>>
Some(v) == <<v>>

EmptyDict == [k \in {} |-> ""]

\* h[key] = value on a dict
DictSet(h, key, value) ==
    [k \in (DOMAIN h) \cup {key} |-> IF k = key THEN value ELSE h[k]]

\* str(v) as an f-string formats a value that may be None
Format(v) == IF v = None THEN "None" ELSE v[1]

\* bool(v) of a value that is None or a str
Truthy(v) == v # None /\ v[1] # ""

-----------------------------------------------------------------------------
(* The inputs of the model. *)

ClientNames == {"A", "B"}

\* the domain and dc arguments of the constructor; the first of each is the
\* parameter's default
DefaultDomain == "accounts.zoho"
DefaultDc == "eu"
Domains == {DefaultDomain, "workdrive.zoho"}
Datacentres == {DefaultDc, "com"}

\* the tokens argument of the constructor: the three required keys, and
\* optionally an access token
RequiredTokens(c) ==
    [client_id |-> "id" \o c, client_secret |-> "secret" \o c,
     refresh_token |-> "refresh" \o c]
TokensArgs(c) ==
    {RequiredTokens(c)} \cup
    {DictSet(RequiredTokens(c), "access_token", t) : t \in {"", "given" \o c}}

\* the JSON answers of the token endpoint: an error, or a new access token
\* with its lifetime (the endpoint sends expires_in with every access_token;
\* an access_token may be any string, the empty one included)
IssuedTokens == {"", "t1", "t2"}
TokenResponses ==
    {[error |-> "invalid_code"]} \cup
    {[access_token |-> t, expires_in |-> e] :
        t \in IssuedTokens, e \in 1..MaxExpiresIn}

\* the JSON answers of the probe endpoint of test_token
ProbeResponses == {[id |-> "F7003"], [id |-> "user1"], [errors |-> "F7003"]}

\* the arguments of query
Endpoints == {"/api/v1/files"}
ParamArgs == {EmptyDict}
HeaderArgs == {EmptyDict, [Accept |-> "application/json"]}
DataArgs == {EmptyDict, [name |-> "report"]}
FileArgs == {EmptyDict, [content |-> "bytes"]}
QueryArgs ==
    [ep : Endpoints, p : ParamArgs, h : HeaderArgs, d : DataArgs, file : FileArgs]
\* the queries without headers and files of their own
PlainQueryArgs ==
    [ep : Endpoints, p : ParamArgs, h : {EmptyDict}, d : DataArgs,
     file : {EmptyDict}]

-----------------------------------------------------------------------------
(* HTTP requests. data and files are None when the keyword is not passed. *)

Request(method, url, params, headers, data, files) ==
    [method |-> method, url |-> url, params |-> params, headers |-> headers,
     data |-> data, files |-> files]

\* requests.get(url, params=..., headers=...)
requests_get(url, params, headers) ==
    Request("GET", url, params, headers, None, None)

\* requests.post(url, data=..., params=..., headers=..., files=...)
requests_post(url, data, params, headers, files) ==
    Request("POST", url, params, headers, data, files)

\* len(d) of a dict
len(d) == Cardinality(DOMAIN d)

-----------------------------------------------------------------------------
(* class ZOAuth2Client *)

\* the keys the constructor requires of tokens
RequiredKeys == {"client_id", "client_secret", "refresh_token"}

\* ZOAuth2Client(tokens, domain, dc), for tokens holding the required keys
\* (the constructor raises ValueError otherwise and there is no object)
__init__(tokens, domain, dc) ==
    [dc            |-> dc,
     client_id     |-> tokens["client_id"],
     client_secret |-> tokens["client_secret"],
     refresh_token |-> tokens["refresh_token"],
     redirect_uri  |-> "https://localhost/",
     access_token  |-> IF "access_token" \in DOMAIN tokens
                       THEN Some(tokens["access_token"]) ELSE None,
     expires_in    |-> None,
     expires_time  |-> None,
     domain        |-> "https://" \o domain \o "." \o dc]

\* the url of the token endpoint
TokenUrl(self) == "https://accounts.zoho." \o self.dc \o "/oauth/v2/token"

\* the request request_new_token sends to the token endpoint
TokenRequest(self) ==
    requests_post(
        TokenUrl(self),
        None,
        Some([refresh_token |-> self.refresh_token,
              client_id     |-> self.client_id,
              client_secret |-> self.client_secret,
              redirect_uri  |-> self.redirect_uri,
              grant_type    |-> "refresh_token"]),
        None, None)

\* request_new_token forgetting the access token it holds before it looks at
\* the answer
request_new_token_clearing(self, resp, t) ==
    IF "access_token" \notin DOMAIN resp
    THEN [self |-> [self EXCEPT !.access_token = None],
          sent |-> <<TokenRequest(self)>>, ret |-> FALSE]
    ELSE [self |-> [self EXCEPT
                       !.access_token = Some(resp["access_token"]),
                       !.expires_in   = Some(resp["expires_in"]),
                       !.expires_time = Some(t + resp["expires_in"])],
          sent |-> <<TokenRequest(self)>>,
          ret  |-> TRUE]

\* request_new_token taking the lifetime for the expiry time
request_new_token_lifetime(self, resp, t) ==
    IF "access_token" \notin DOMAIN resp
    THEN [self |-> self, sent |-> <<TokenRequest(self)>>, ret |-> FALSE]
    ELSE [self |-> [self EXCEPT
                       !.access_token = Some(resp["access_token"]),
                       !.expires_in   = Some(resp["expires_in"]),
                       !.expires_time = Some(resp["expires_in"])],
          sent |-> <<TokenRequest(self)>>,
          ret  |-> TRUE]

\* self.request_new_token() at time t, the token endpoint answering resp:
\* the object afterwards, the requests sent and the value returned
request_new_token(self, resp, t) ==
    IF "access_token" \notin DOMAIN resp
    THEN [self |-> self, sent |-> <<TokenRequest(self)>>, ret |-> FALSE]
    ELSE [self |-> [self EXCEPT
                       !.access_token = Some(resp["access_token"]),
                       !.expires_in   = Some(resp["expires_in"]),
                       !.expires_time = Some(t + resp["expires_in"])],
          sent |-> <<TokenRequest(self)>>,
          ret  |-> TRUE]

\* authorize_header keeping an Authorization header that h already has
authorize_header_setdefault(self, h) ==
    IF "Authorization" \in DOMAIN h THEN h
    ELSE DictSet(h, "Authorization", "Bearer " \o Format(self.access_token))

\* self.authorize_header(h): h with the Authorization key assigned; the dict
\* returned is the dict h itself
authorize_header(self, h) ==
    DictSet(h, "Authorization", "Bearer " \o Format(self.access_token))

\* has_expired with >= for >
has_expired_at_expiry(self, t) ==
    self.expires_time = None \/ t >= self.expires_time[1]

\* has_expired taking an unknown expiry time for one not reached
has_expired_known_only(self, t) ==
    self.expires_time # None /\ t > self.expires_time[1]

\* self.has_expired() at time t
has_expired(self, t) ==
    self.expires_time = None \/ t > self.expires_time[1]

\* the condition of query's first if
NeedsToken(self, t) ==
    has_expired(self, t) \/ ~Truthy(self.access_token)

\* the request of query with a first test that forgets d
ApiRequest_files_only(self, ep, p, hh, d, file) ==
    IF len(file) = 0
    THEN requests_get(self.domain \o ep, Some(p), Some(hh))
    ELSE requests_post(self.domain \o ep, Some(d), Some(p), Some(hh), Some(file))

\* the request of query's if/elif/else on d and file, with headers hh
ApiRequest(self, ep, p, hh, d, file) ==
    IF len(d) = 0 /\ len(file) = 0
    THEN requests_get(self.domain \o ep, Some(p), Some(hh))
    ELSE IF len(file) = 0
    THEN requests_post(self.domain \o ep, Some(d), Some(p), Some(hh), None)
    ELSE requests_post(self.domain \o ep, Some(d), Some(p), Some(hh), Some(file))

\* self.query(ep, p, h, d, file) at time t, hd being the default dict of
\* authorize_header and resp the answer of the token endpoint if it is asked:
\* the object and the default dict afterwards, the requests sent, the outcome
query(self, hd, ep, p, h, d, file, resp, t) ==
    LET need == NeedsToken(self, t)
        r    == IF need THEN request_new_token(self, resp, t)
                ELSE [self |-> self, sent |-> <<>>, ret |-> TRUE]
        s1   == r.self
        out1 == r.sent
    IN  IF need /\ ~r.ret
        THEN [self |-> s1, hdefault |-> hd, sent |-> out1, ret |-> "ValueError"]
        ELSE LET hh == authorize_header(s1, hd)
             IN  [self     |-> s1,
                  hdefault |-> hh,
                  sent     |-> Append(out1, ApiRequest(s1, ep, p, hh, d, file)),
                  ret      |-> "json"]

\* another id of the probe's answers
RefreshId_other == "user1"

\* the id test_token compares the probe's answer with
RefreshId == "F7003"

\* the url of test_token's probe
ProbeUrl(self) == self.domain \o "." \o self.dc \o "/api/v1/users/me"

\* self.test_token() at time t, the probe endpoint answering probe
test_token(self, hd, probe, resp, t) ==
    LET hh  == authorize_header(self, hd)
        req == requests_get(ProbeUrl(self), None, Some(hh))
        r   == request_new_token(self, resp, t)
    IN  IF "id" \notin DOMAIN probe
        THEN [self |-> self, hdefault |-> hh, sent |-> <<req>>, ret |-> "KeyError"]
        ELSE IF probe["id"] = RefreshId
        THEN [self |-> r.self, hdefault |-> hh, sent |-> <<req>> \o r.sent,
              ret |-> "None"]
        ELSE [self |-> self, hdefault |-> hh, sent |-> <<req>>, ret |-> "None"]

-----------------------------------------------------------------------------
(* The state machine: the constructed clients and the calls made on them. *)

\* whether the requests out hold a request to the token endpoint
AskedToken(self, out) ==
    \E i \in 1..Len(out) : out[i] = TokenRequest(self)

\* the record of a call; token is the token endpoint's answer when it was
\* asked, probe the probe endpoint's answer when it was asked; seq tells a
\* call from the call before it
Call(op, c, args, probe, token, ret) ==
    [seq |-> 1 - call.seq, op |-> op, c |-> c, args |-> args,
     probe |-> probe, token |-> token, ret |-> ret]

NoArgs == EmptyDict

\* the history of the access tokens the token endpoint handed out
Issue(c, self, out, resp) ==
    IF AskedToken(self, out) /\ "access_token" \in DOMAIN resp
    THEN [issued EXCEPT ![c] = Some(resp["access_token"])]
    ELSE issued

\* the clients named in names, constructed with the arguments in args
InitWith(names, args) ==
    /\ ctor \in [names -> args]
    /\ \A c \in names : ctor[c].tokens \in TokensArgs(c)
    /\ \A c \in names : RequiredKeys \subseteq DOMAIN ctor[c].tokens
    /\ clients = [c \in names |->
                     __init__(ctor[c].tokens, ctor[c].domain, ctor[c].dc)]
    /\ hdefault = EmptyDict
    /\ now = 0
    /\ call = [seq |-> 0, op |-> "__init__", c |-> "", args |-> NoArgs,
               probe |-> None, token |-> None, ret |-> "None"]
    /\ sent = <<>>
    /\ issued = [c \in names |-> None]

AllTokensArgs == UNION {TokensArgs(c) : c \in ClientNames}

\* one client of the default domain and datacentre, constructed with any of
\* the tokens
Init ==
    InitWith({"A"},
             [tokens : AllTokensArgs, domain : {DefaultDomain},
              dc : {DefaultDc}])

\* one client, constructed with any of the domains and datacentres, with an
\* access token and without
InitAny ==
    /\ InitWith({"A"},
                [tokens : AllTokensArgs, domain : Domains, dc : Datacentres])
    /\ clients["A"].access_token \in {None, Some("givenA")}

\* two clients of the default domain and datacentre, each constructed with
\* an access token of its own
InitTwo ==
    /\ InitWith(ClientNames,
                [tokens : AllTokensArgs, domain : {DefaultDomain},
                 dc : {DefaultDc}])
    /\ \A c \in ClientNames : clients[c].access_token = Some("given" \o c)

\* time passes
Tick ==
    /\ now < MaxTime
    /\ now' = now + 1
    /\ UNCHANGED <<clients, hdefault, call, sent, ctor, issued>>

\* the token endpoint answers only when it is asked: an answer for each call
\* that sends it a request, and no answer for the others
NoAnswer == [error |-> "not asked"]
Answers(asks) == IF asks THEN TokenResponses ELSE {NoAnswer}

\* the effect of a call on clients[c] whose outcome is r, the token endpoint
\* answering resp if asked
Effect(c, r, resp) ==
    /\ clients' = [clients EXCEPT ![c] = r.self]
    /\ sent' = r.sent
    /\ issued' = Issue(c, clients[c], r.sent, resp)
    /\ UNCHANGED <<now, ctor>>

\* clients[c].query(ep, p, h, d, file), for arguments a in args
Query(c, args) ==
    \E a \in args, resp \in Answers(NeedsToken(clients[c], now)) :
        \E r \in {query(clients[c], hdefault, a.ep, a.p, a.h, a.d, a.file,
                        resp, now)} :
            /\ Effect(c, r, resp)
            /\ hdefault' = r.hdefault
            /\ call' = Call("query", c, a, None,
                            IF AskedToken(clients[c], r.sent)
                            THEN Some(resp) ELSE None,
                            r.ret)

\* clients[c].test_token()
TestToken(c) ==
    \E probe \in ProbeResponses :
        \E resp \in Answers("id" \in DOMAIN probe /\ probe["id"] = RefreshId) :
            \E r \in {test_token(clients[c], hdefault, probe, resp, now)} :
                /\ Effect(c, r, resp)
                /\ hdefault' = r.hdefault
                /\ call' = Call("test_token", c, NoArgs, Some(probe),
                                IF AskedToken(clients[c], r.sent)
                                THEN Some(resp) ELSE None,
                                r.ret)

\* clients[c].request_new_token()
RequestNewToken(c) ==
    \E resp \in TokenResponses :
        \E r \in {request_new_token(clients[c], resp, now)} :
            /\ Effect(c, r, resp)
            /\ call' = Call("request_new_token", c, NoArgs, None, Some(resp),
                            IF r.ret THEN "True" ELSE "False")
            /\ UNCHANGED hdefault

\* clients[c].has_expired()
HasExpired(c) ==
    /\ call' = Call("has_expired", c, NoArgs, None, None,
                    IF has_expired(clients[c], now) THEN "True" ELSE "False")
    /\ sent' = <<>>
    /\ UNCHANGED <<clients, hdefault, now, ctor, issued>>

\* clients[c].authorize_header(), which assigns to the default dict
AuthorizeHeaderDefault(c) ==
    /\ hdefault' = authorize_header(clients[c], hdefault)
    /\ call' = Call("authorize_header", c, NoArgs, None, None, "dict")
    /\ sent' = <<>>
    /\ UNCHANGED <<clients, now, ctor, issued>>

\* clients[c].authorize_header(h), which assigns to the caller's dict h
AuthorizeHeaderGiven(c) ==
    \E h \in HeaderArgs :
        /\ call' = Call("authorize_header", c, [h |-> h], None, None, "dict")
        /\ sent' = <<>>
        /\ UNCHANGED <<clients, hdefault, now, ctor, issued>>

Next ==
    \/ Tick
    \/ \E c \in DOMAIN clients : Query(c, QueryArgs)
    \/ \E c \in DOMAIN clients : TestToken(c)
    \/ \E c \in DOMAIN clients : RequestNewToken(c)
    \/ \E c \in DOMAIN clients : HasExpired(c)
    \/ \E c \in DOMAIN clients : AuthorizeHeaderDefault(c)
    \/ \E c \in DOMAIN clients : AuthorizeHeaderGiven(c)

Spec == Init /\ [][Next]_vars

SpecAny == InitAny /\ [][Next]_vars

\* the calls to query, test_token and authorize_header on two clients
NextTwo ==
    \/ Tick
    \/ \E c \in DOMAIN clients : Query(c, PlainQueryArgs)
    \/ \E c \in DOMAIN clients : TestToken(c)
    \/ \E c \in DOMAIN clients : AuthorizeHeaderDefault(c)

SpecTwo == InitTwo /\ [][NextTwo]_vars

-----------------------------------------------------------------------------
(* The vocabulary of the properties. A step that is a call changes call     *)
(* (its seq); in such a step the unprimed variables are the state at the    *)
(* moment of the call and the primed ones the state when it has returned.   *)

IsCall(op) == call' # call /\ call'.op = op

\* the positions in out of the requests to the token endpoint of self
TokenRequests(self, out) ==
    {i \in 1..Len(out) : out[i].url = TokenUrl(self)}

\* the positions in out of the other requests: those to the API domain
ApiRequests(self, out) == (1..Len(out)) \ TokenRequests(self, out)

\* the bearer header of the access token tok
Bearer(tok) == "Bearer " \o Format(tok)

\* the request req carries the Authorization header v
Authorized(req, v) ==
    /\ req.headers # None
    /\ "Authorization" \in DOMAIN req.headers[1]
    /\ req.headers[1]["Authorization"] = v

\* the token fields of a client
TokenState(self) == <<self.access_token, self.expires_in, self.expires_time>>

\* the constructor's fields of a client
Credentials(self) ==
    <<self.client_id, self.client_secret, self.refresh_token, self.domain>>

\* the expiry time is unknown, or the time t is later than it, or the access
\* token is missing or empty
Due(self, t) ==
    \/ self.expires_time = None
    \/ t > self.expires_time[1]
    \/ self.access_token = None
    \/ self.access_token = Some("")

-----------------------------------------------------------------------------
\* C1: a call to query sends a request to the token endpoint if and only if,
\* at the moment of the call, the expiry time is unknown, or the time is
\* later than the expiry time, or the access token is missing or empty; it
\* sends at most one, before the API request; and when it sends none, the
\* access token and the expiry time are as they were.
C1_QueryStep ==
    IsCall("query") =>
        LET self == clients[call'.c]
            tok  == TokenRequests(self, sent')
        IN  /\ (tok # {}) <=> Due(self, now)
            /\ Cardinality(tok) <= 1
            /\ \A i \in tok : \A j \in ApiRequests(self, sent') : i < j
            /\ tok = {} =>
                  /\ clients'[call'.c].access_token = self.access_token
                  /\ clients'[call'.c].expires_time = self.expires_time
C1_RefreshIffDue == [][C1_QueryStep]_vars

\* a query that asked for a token and then sent its API request
C1_Witness ==
    /\ call.op = "query"
    /\ call.token # None
    /\ Len(sent) = 2
    /\ sent[1].url = TokenUrl(clients[call.c])
    /\ sent[2].url = clients[call.c].domain \o call.args.ep

-----------------------------------------------------------------------------
\* C2: when a call to query needs a token and the answer of the token
\* endpoint holds no access_token, query raises, sends no request to the API
\* domain and leaves access_token, expires_in and expires_time as they were;
\* the next call to query on that client asks the token endpoint again.
C2_QueryStep ==
    IsCall("query") =>
        LET self == clients[call'.c]
        IN  /\ ( /\ Due(self, now)
                 /\ call'.token # None
                 /\ "access_token" \notin DOMAIN call'.token[1] ) =>
                    /\ call'.ret = "ValueError"
                    /\ ApiRequests(self, sent') = {}
                    /\ TokenState(clients'[call'.c]) = TokenState(self)
            /\ ( /\ call.op = "query"
                 /\ call.ret = "ValueError"
                 /\ call.c = call'.c ) =>
                    TokenRequests(self, sent') # {}
C2_FailedRefresh == [][C2_QueryStep]_vars

\* a query that raised after the token endpoint gave no token, although the
\* client held a token from an earlier answer
C2_Witness ==
    /\ call.op = "query"
    /\ call.ret = "ValueError"
    /\ call.token # None
    /\ "access_token" \notin DOMAIN call.token[1]
    /\ Len(sent) = 1
    /\ Truthy(clients[call.c].access_token)
    /\ clients[call.c].expires_time # None

-----------------------------------------------------------------------------
\* C3: a call to query that gets past the token check sends exactly one
\* request to domain+ep: a GET without body and files when d and file are
\* empty, a POST with the body d and no files when d is not empty and file
\* is, a POST with the body and the files when neither is empty.
C3_MethodByArguments ==
    (call.op = "query" /\ call.ret = "json") =>
        LET self == clients[call.c]
            a    == call.args
            api  == {i \in 1..Len(sent) : sent[i].url = self.domain \o a.ep}
        IN  /\ Cardinality(api) = 1
            /\ \A i \in api :
                 /\ (len(a.d) = 0 /\ len(a.file) = 0) =>
                       /\ sent[i].method = "GET"
                       /\ sent[i].data = None
                       /\ sent[i].files = None
                 /\ (len(a.d) # 0 /\ len(a.file) = 0) =>
                       /\ sent[i].method = "POST"
                       /\ sent[i].data = Some(a.d)
                       /\ sent[i].files = None
                 /\ (len(a.d) # 0 /\ len(a.file) # 0) =>
                       /\ sent[i].method = "POST"
                       /\ sent[i].data = Some(a.d)
                       /\ sent[i].files = Some(a.file)

\* a query with a body and no files that sent a plain POST
C3_Witness ==
    /\ call.op = "query"
    /\ call.ret = "json"
    /\ len(call.args.d) # 0
    /\ len(call.args.file) = 0
    /\ sent[Len(sent)].method = "POST"
    /\ sent[Len(sent)].files = None

-----------------------------------------------------------------------------
\* C4: the API request of a call to query carries every header of the
\* argument h, and the Authorization header with them.
C4_CallerHeadersKept ==
    (call.op = "query" /\ call.ret = "json") =>
        LET self == clients[call.c]
            req  == sent[Len(sent)]
        IN  /\ req.headers # None
            /\ "Authorization" \in DOMAIN req.headers[1]
            /\ \A k \in DOMAIN call.args.h :
                 /\ k \in DOMAIN req.headers[1]
                 /\ req.headers[1][k] = call.args.h[k]

-----------------------------------------------------------------------------
\* C5: request_new_token returns True if and only if the answer of the token
\* endpoint holds an access_token; then access_token is the token of the
\* answer and expires_time the time of the call plus the answer's
\* expires_in; when it returns False, access_token, expires_in and
\* expires_time are as they were; client_id, client_secret, refresh_token
\* and domain are as they were in both cases.
C5_RefreshStep ==
    IsCall("request_new_token") =>
        LET self == clients[call'.c]
            post == clients'[call'.c]
            resp == call'.token[1]
        IN  /\ call'.ret \in {"True", "False"}
            /\ (call'.ret = "True") <=> ("access_token" \in DOMAIN resp)
            /\ call'.ret = "True" =>
                  /\ post.access_token = Some(resp["access_token"])
                  /\ post.expires_time = Some(now + resp["expires_in"])
            /\ call'.ret = "False" => TokenState(post) = TokenState(self)
            /\ Credentials(post) = Credentials(self)
-----------------------------------------------------------------------------
\* C6: test_token sends exactly one GET, its probe, with the bearer header of
\* the access token held at the call, and after it a request to the token
\* endpoint if and only if the id of the probe's answer is "F7003"; when the
\* id is anything else, access_token, expires_in and expires_time are as
\* they were.
C6_TestTokenStep ==
    IsCall("test_token") =>
        LET self   == clients[call'.c]
            probe  == call'.probe[1]
            gets   == {i \in 1..Len(sent') : sent'[i].method = "GET"}
            tok    == TokenRequests(self, sent')
            reject == "id" \in DOMAIN probe /\ probe["id"] = "F7003"
        IN  /\ gets = {1}
            /\ Authorized(sent'[1], Bearer(self.access_token))
            /\ (tok # {}) <=> reject
            /\ tok \subseteq {2}
            /\ Len(sent') = 1 + Cardinality(tok)
            /\ ~reject => TokenState(clients'[call'.c]) = TokenState(self)
C6_TestToken == [][C6_TestTokenStep]_vars

\* a test_token whose probe was answered with the id F7003 and that took a
\* new token
C6_Witness ==
    /\ call.op = "test_token"
    /\ call.probe = Some([id |-> "F7003"])
    /\ Len(sent) = 2
    /\ sent[2].url = TokenUrl(clients[call.c])
    /\ call.token # None
    /\ "access_token" \in DOMAIN call.token[1]

-----------------------------------------------------------------------------
\* C7: the probe of test_token goes to the host of the API domain,
\* https://{domain}.{dc}, followed by the path /api/v1/users/me.
C7_ProbeOnApiHost ==
    call.op = "test_token" =>
        /\ sent[1].url = "https://" \o ctor[call.c].domain \o "."
                            \o ctor[call.c].dc \o "/api/v1/users/me"
        /\ sent[1].url = clients[call.c].domain \o "/api/v1/users/me"

-----------------------------------------------------------------------------
\* C8: on a client on which no refresh has succeeded yet, every call to
\* query asks the token endpoint first, whether or not the constructor was
\* given an access_token; so the bearer token of an API request of query is
\* always a token the token endpoint handed out to this client, the latest,
\* and never the constructor's.
C8_QueryStep ==
    IsCall("query") =>
        LET c    == call'.c
            self == clients[c]
            api  == ApiRequests(self, sent')
        IN  /\ issued[c] = None =>
                  /\ 1 \in TokenRequests(self, sent')
                  /\ 1 \notin api
            /\ \A i \in api :
                  /\ issued'[c] # None
                  /\ Authorized(sent'[i], Bearer(issued'[c]))
                  /\ ~Authorized(sent'[i], Bearer(Some("given" \o c)))
C8_FreshClientRefreshes == [][C8_QueryStep]_vars

\* a query, on a client constructed with an access token, that asked the
\* token endpoint and sent its API request with the token of the answer
C8_Witness ==
    /\ call.op = "query"
    /\ call.ret = "json"
    /\ "access_token" \in DOMAIN ctor[call.c].tokens
    /\ ctor[call.c].tokens["access_token"] = "given" \o call.c
    /\ call.token # None
    /\ Len(sent) = 2
    /\ Authorized(sent[2], Bearer(Some(call.token[1]["access_token"])))

-----------------------------------------------------------------------------
\* C9: with two clients, every request a call to query or test_token sends
\* to the API domain carries the bearer header of the access token that the
\* client of the call holds when the request is sent (query sends it after
\* its refresh, test_token before), and not that of the other client's
\* token when the two differ.
HeldAtSend(c) ==
    IF call'.op = "query" THEN clients'[c].access_token
    ELSE clients[c].access_token
C9_TwoClientStep ==
    (IsCall("query") \/ IsCall("test_token")) =>
        LET c    == call'.c
            self == clients[c]
        IN  \A i \in ApiRequests(self, sent') :
                /\ Authorized(sent'[i], Bearer(HeldAtSend(c)))
                /\ \A o \in DOMAIN clients \ {c} :
                      clients[o].access_token # HeldAtSend(c) =>
                          ~Authorized(sent'[i], Bearer(clients[o].access_token))
C9_OwnBearer == [][C9_TwoClientStep]_vars

\* a query on B, sent with the token B holds and without a refresh, while A
\* holds another token and the default header dict has been written
C9_Witness ==
    /\ DOMAIN clients = ClientNames
    /\ call.op = "query"
    /\ call.c = "B"
    /\ call.ret = "json"
    /\ call.token = None
    /\ Truthy(clients["A"].access_token)
    /\ clients["A"].access_token # clients["B"].access_token
    /\ Authorized(sent[1], Bearer(clients["B"].access_token))

-----------------------------------------------------------------------------
====
